---- MODULE Spec2Model ----
(***************************************************************************)
(* Double-entry ledger of MyFinance: the tables public.transactions and    *)
(* public.transaction_entries, the deferred constraint trigger             *)
(* validate_transaction_entries_trigger and the function it executes,      *)
(* run by concurrent database sessions under PostgreSQL's READ COMMITTED   *)
(* isolation with row-level locks.                                         *)
(***************************************************************************)
EXTENDS Integers, Sequences, FiniteSets, TLC

\* ---------------------------------------------------------------- bounds
\* Row versions of transaction_entries stored at one time (committed rows and the
\* uncommitted versions written by transactions in progress).
MaxLines == 4
\* Row events queued for the deferred trigger by all the transactions in progress.
MaxEvents == 4
\* Committed rows of transaction_entries the concurrent sessions start from.
MaxCommitted == 2
\* Committed rows of the header two sessions rewrite at the same time.
MaxShared == 3
\* Lines of a form.
MaxFormLines == 3
\* Significant bits of a Number (53 in an IEEE 754 double).
MantissaBits == 3
\* init callbacks of AuthProvider in flight at once.
MaxInits == 2

\* Concurrent database sessions, each running one ambient transaction at a time.
Sessions == {"s1", "s2"}
\* Identifiers of rows of public.transactions.
HeaderOrder == <<"H1", "H2">>
Headers == {HeaderOrder[i] : i \in 1..Len(HeaderOrder)}
\* Values of transaction_entries.amount (numeric NOT NULL, signed) a debit or a
\* credit carries.
Amounts == {-1, 1}
\* The column has no CHECK: a line of amount zero is stored as well.
AllAmounts == Amounts \cup {0}

\* The two messages validate_transaction_entries raises.
TooFewLines == "Cada lancamento deve ter pelo menos duas linhas (debito e credito)"
Unbalanced == "Soma dos valores das linhas do lancamento deve ser igual a zero"
NoViolation == "none"

NoHeader == "none"

\* A row of transaction_entries as far as the trigger function reads it:
\* <<transaction_id, amount>>. Rows differ in their id (a random uuid) only, so
\* a table is modelled by the number of rows it holds of each kind.
Kinds == Headers \X AllAmounts
\* The rows with a debit or a credit.
WrittenKinds == Headers \X Amounts
NoRows == [k \in Kinds |-> 0]

\* ------------------------------------------------ row level security
\* auth.uid() of the authenticated users.
Users == {"u1", "u2"}
\* The role that owns the tables: ENABLE (not FORCE) ROW LEVEL SECURITY leaves it
\* exempt from the policies.
Owner == "owner"
\* Rows of public.companies (tenants).
Tenants == {"A", "B"}
\* The tables whose rows belong to a tenant.
Tables == {"companies", "accounts", "financial_accounts", "cost_centers",
           "transactions", "transaction_entries"}
\* Primary keys of the rows of one table.
RowIds == {"r1", "r2"}
NoRow == "none"
NoTable == "none"
NoRequest == [by |-> "none", command |-> "none", rows |-> {}, error |-> FALSE]

\* TransactionsPage: no handler running.
NoHandler == [at |-> "idle", transactionId |-> NoHeader, loaded |-> "absent"]

\* The invite-user function has received no request.
NoInviteRequest ==
  [method |-> "none", authorization |-> [scheme |-> "absent", user |-> "nobody"],
   body |-> [json |-> FALSE, email |-> [present |-> FALSE, blanks |-> 0, chars |-> 0],
             companyId |-> FALSE, role |-> FALSE],
   inviteError |-> FALSE]
NoInvite == [req |-> NoInviteRequest, status |-> 0, called |-> FALSE]

\* AuthProvider as mounted, before any session is known.
NoUser == "nobody"
NoCompany == "none"
NoAuth ==
  [user |-> NoUser, profile |-> NoUser, currentCompany |-> NoCompany, companies |-> {},
   initializing |-> FALSE, loading |-> TRUE]

\* The transaction dialog closed.
NoForm == [lines |-> <<>>, submitted |-> "no", raised |-> NoViolation]

VARIABLES
  transactions,         \* committed rows of public.transactions: header id -> "absent" | "present" | "edited"
  transaction_entries,  \* committed rows of public.transaction_entries: kind -> number of rows
  txState,              \* session -> Idle | Open | Committing | Committed | Aborted
  headerWrites,         \* session -> header id -> "untouched" | "inserted" | "updated" | "deleted"
  added,                \* session -> row versions it wrote (inserted or updated to), uncommitted
  removed,              \* session -> committed rows it deleted or updated (and holds locked)
  events,               \* session -> queue of deferred trigger events (the header each validates)
  fired,                \* session -> number of queued events whose trigger has run
  violation,            \* session -> message of the exception that ended its last transaction
  company_users,        \* rows of public.company_users: set of <<company_id, user_id>>
  user_roles,           \* rows of public.user_roles: set of <<user_id, role>>
  relation,             \* the table the requests below are made on
  company_id,           \* rows of that table: primary key -> company_id, or NoRow
  result,               \* last request: who, command, rows returned or affected, error
  pc,                   \* the page's handler: the request it awaits, the header it works on
  form,                 \* the transaction form: its lines, what onSubmit did, what the check raised
  invite,               \* the invite-user function: the request it got and its response
  auth_users,           \* rows of auth.users: set of user ids
  companies,            \* rows of public.companies: set of company ids
  auth,                 \* AuthProvider: its React state
  inits                 \* AuthProvider: the init callbacks scheduled and not yet finished

\* The ledger and its sessions.
ledgerVars == <<transactions, transaction_entries, txState, headerWrites, added, removed,
                events, fired, violation>>
\* The accounts of the platform, the companies, and the AuthProvider of the
\* browser.
platformVars == <<auth_users, companies, auth, inits>>
\* The state outside the ledger, the tenancy tables and the handlers of the
\* transactions page: the transaction form, the invite-user function, the
\* platform.
browserVars == <<form, invite, platformVars>>
\* The tenancy tables and the requests made under row level security.
tenancyVars == <<company_users, user_roles, relation, company_id, result>>
\* What no statement of a ledger session writes: the tenancy tables, and the
\* position of the page's handler.
accessVars == <<tenancyVars, pc, browserVars>>

vars == <<ledgerVars, accessVars>>

\* Nobody signed up, no company, nobody signed in.
NoPlatform ==
  /\ auth_users = {}
  /\ companies = {}
  /\ auth = NoAuth
  /\ inits = <<>>

\* No page of the browser in use, no request to the invite-user function.
NoBrowser == form = NoForm /\ invite = NoInvite /\ NoPlatform

\* The tenancy tables empty and no request made on them.
NoTenancy ==
  /\ company_users = {}
  /\ user_roles = {}
  /\ relation = NoTable
  /\ company_id = [r \in RowIds |-> NoRow]
  /\ result = NoRequest

\* No tenancy table in use and no page open: the ledger sessions run as the role
\* that owns the tables.
NoAccess ==
  /\ pc = NoHandler
  /\ NoBrowser
  /\ NoTenancy

\* ------------------------------------------------------------- helpers
RECURSIVE Sum(_, _)
\* The sum of f over the set S.
Sum(f, S) ==
  IF S = {} THEN 0
  ELSE LET x == CHOOSE y \in S : TRUE
       IN f[x] + Sum(f, S \ {x})

Others(s) == Sessions \ {s}

\* EntriesView reading the uncommitted row versions of every session (READ
\* UNCOMMITTED, which PostgreSQL does not offer).
EntriesView_Dirty(s) ==
  [k \in Kinds |->
     transaction_entries[k]
     - Sum([o \in Sessions |-> removed[o][k]], Sessions)
     + Sum([o \in Sessions |-> added[o][k]], Sessions)]

\* What a statement of session s reads from transaction_entries: the committed
\* rows it has not rewritten, and its own uncommitted row versions.
EntriesView(s) ==
  [k \in Kinds |-> transaction_entries[k] - removed[s][k] + added[s][k]]

\* UPDATE transactions SET description = ..., status = ... : the row with the
\* fields of the form in place of the ones it had ("present" as inserted, "edited"
\* with other field values).
Rewritten(row) == IF row = "present" THEN "edited" ELSE "present"

\* What a statement of session s reads from transactions.
HeadersView(s) ==
  [h \in Headers |->
     IF headerWrites[s][h] = "untouched" THEN transactions[h]
     ELSE IF headerWrites[s][h] = "deleted" THEN "absent"
     ELSE IF headerWrites[s][h] = "updated" THEN Rewritten(transactions[h])
     ELSE "present"]

\* Row-level locks: the committed rows of kind k no transaction in progress has
\* deleted or updated.
Unlocked(k) ==
  transaction_entries[k] - Sum([o \in Sessions |-> removed[o][k]], Sessions)

HeaderLockedByOther(s, h) == \E o \in Others(s) : headerWrites[o][h] # "untouched"

\* The foreign key transaction_id REFERENCES transactions(id): an entry written
\* by another transaction in progress holds a key-share lock on its header.
HeaderReferencedByOther(s, h) ==
  \E o \in Others(s) : \E a \in AllAmounts : added[o][<<h, a>>] > 0

\* The foreign key as checked for a row session s writes with transaction_id = h.
ForeignKeyOk(s, h) ==
  /\ HeadersView(s)[h] # "absent"
  /\ \A o \in Others(s) : headerWrites[o][h] # "deleted"

\* Row versions stored.
Stored ==
  Sum(transaction_entries, Kinds)
  + Sum([s \in Sessions |-> Sum(added[s], Kinds)], Sessions)

UsedHeaderIds ==
  {h \in Headers : transactions[h] # "absent"
                   \/ \E s \in Sessions : headerWrites[s][h] # "untouched"}

\* gen_random_uuid() for transactions.id: an identifier no header row has.
NewHeaderId ==
  LET free == {i \in 1..Len(HeaderOrder) : HeaderOrder[i] \notin UsedHeaderIds}
  IN HeaderOrder[CHOOSE i \in free : \A j \in free : i <= j]

NoHeaderWrites == [h \in Headers |-> "untouched"]

\* ------------------------------------------- validate_transaction_entries
\* v_tx_id taking the header of the old row whenever the event has one.
v_tx_id_OldRow(ev) ==
  IF ev.op = "INSERT" THEN ev.new_tx ELSE ev.old_tx

\* The header the trigger function validates for one queued row event.
v_tx_id(ev) ==
  IF ev.op = "INSERT" \/ ev.op = "UPDATE" THEN ev.new_tx ELSE ev.old_tx

\* SELECT COALESCE(SUM(amount), 0), COUNT(*) ... WHERE transaction_id = tx.
Aggregate(rows, tx) ==
  [v_sum |-> Sum([a \in AllAmounts |-> a * rows[<<tx, a>>]], AllAmounts),
   v_count |-> Sum([a \in AllAmounts |-> rows[<<tx, a>>]], AllAmounts)]

\* RaiseFor with the two checks in the other order.
RaiseFor_SumFirst(a) ==
  IF a.v_sum # 0 THEN Unbalanced
  ELSE IF a.v_count < 2 THEN TooFewLines
  ELSE NoViolation

\* RaiseFor accepting nothing but a pair of lines.
RaiseFor_ExactlyTwo(a) ==
  IF a.v_count # 2 THEN TooFewLines
  ELSE IF a.v_sum # 0 THEN Unbalanced
  ELSE NoViolation

\* RaiseFor rejecting a positive sum only.
RaiseFor_PositiveOnly(a) ==
  IF a.v_count < 2 THEN TooFewLines
  ELSE IF a.v_sum > 0 THEN Unbalanced
  ELSE NoViolation

\* RaiseFor with one message for both violations.
RaiseFor_OneMessage(a) ==
  IF a.v_count < 2 \/ a.v_sum # 0 THEN TooFewLines ELSE NoViolation

\* The exception the function raises for the aggregate a, or NoViolation.
RaiseFor(a) ==
  IF a.v_count < 2 THEN TooFewLines
  ELSE IF a.v_sum # 0 THEN Unbalanced
  ELSE NoViolation

validate_transaction_entries(rows, tx) == RaiseFor(Aggregate(rows, tx))

\* ---------------------------------------------------------------- Init

\* The database the migrations create, and no session connected yet.
Init ==
  /\ transactions = [h \in Headers |-> "absent"]
  /\ transaction_entries = NoRows
  /\ txState = [s \in Sessions |-> "Idle"]
  /\ headerWrites = [s \in Sessions |-> NoHeaderWrites]
  /\ added = [s \in Sessions |-> NoRows]
  /\ removed = [s \in Sessions |-> NoRows]
  /\ events = [s \in Sessions |-> <<>>]
  /\ fired = [s \in Sessions |-> 0]
  /\ violation = [s \in Sessions |-> NoViolation]
  /\ NoAccess

\* The ledger of Init: both tables empty, no session connected.
EmptyLedger ==
  /\ transactions = [h \in Headers |-> "absent"]
  /\ transaction_entries = NoRows
  /\ txState = [s \in Sessions |-> "Idle"]
  /\ headerWrites = [s \in Sessions |-> NoHeaderWrites]
  /\ added = [s \in Sessions |-> NoRows]
  /\ removed = [s \in Sessions |-> NoRows]
  /\ events = [s \in Sessions |-> <<>>]
  /\ fired = [s \in Sessions |-> 0]
  /\ violation = [s \in Sessions |-> NoViolation]

\* ------------------------------------------------------------- actions
\* BEGIN: a session starts a new ambient transaction.
Begin(s) ==
  /\ txState[s] \in {"Idle", "Committed", "Aborted"}
  /\ txState' = [txState EXCEPT ![s] = "Open"]
  /\ violation' = [violation EXCEPT ![s] = NoViolation]
  /\ UNCHANGED <<transactions, transaction_entries, headerWrites, added, removed,
                 events, fired>>
  /\ UNCHANGED accessVars

\* The ambient transaction of session s ends: its queue and its uncommitted
\* versions go, its locks are released.
EndTransaction(s) ==
  /\ events' = [events EXCEPT ![s] = <<>>]
  /\ headerWrites' = [headerWrites EXCEPT ![s] = NoHeaderWrites]
  /\ added' = [added EXCEPT ![s] = NoRows]
  /\ removed' = [removed EXCEPT ![s] = NoRows]
  /\ fired' = [fired EXCEPT ![s] = 0]

\* The committed rows of transaction_entries after the transaction of session s
\* is rolled back: none of its writes.
RolledBackEntries(s) == transaction_entries

\* RolledBackHeaders when the header was written by a request of its own, already
\* committed when the entries are rejected.
RolledBackHeaders_Autocommit(s) == HeadersView(s)

\* The committed rows of transactions after the transaction of session s is
\* rolled back.
RolledBackHeaders(s) == transactions

\* RAISE EXCEPTION, or ROLLBACK: the ambient transaction of session s aborts.
Abort(s, message) ==
  /\ txState' = [txState EXCEPT ![s] = "Aborted"]
  /\ violation' = [violation EXCEPT ![s] = message]
  /\ transaction_entries' = RolledBackEntries(s)
  /\ transactions' = RolledBackHeaders(s)
  /\ EndTransaction(s)
  /\ UNCHANGED accessVars

\* Row events queued by all the transactions in progress.
Pending == Sum([s \in Sessions |-> Len(events[s])], Sessions)

\* QueueAfter for a trigger that runs once for each header (FOR EACH STATEMENT
\* with the headers deduplicated).
QueueAfter_PerHeader(q, evs) ==
  LET new == {v_tx_id(evs[i]) : i \in 1..Len(evs)} \ {q[i] : i \in 1..Len(q)}
  IN IF new = {} THEN q ELSE Append(q, CHOOSE h \in new : TRUE)

\* AFTER INSERT OR UPDATE OR DELETE ... FOR EACH ROW: one event per row is queued.
\* TG_OP, OLD and NEW of an event are fixed when it is queued, so the queue keeps
\* of each event the header the trigger function will validate for it.
QueueAfter(q, evs) == q \o [i \in 1..Len(evs) |-> v_tx_id(evs[i])]

\* Statement for a trigger declared INITIALLY IMMEDIATE: the row events of a
\* statement fire when the statement ends.
Statement_Immediate(s, a, r, hw, evs) ==
  LET view == [k \in Kinds |-> transaction_entries[k] - r[k] + a[k]]
      raised == {validate_transaction_entries(view, v_tx_id(evs[i])) :
                   i \in 1..Len(evs)} \ {NoViolation}
  IN IF raised = {}
     THEN /\ Pending + Len(evs) <= MaxEvents
          /\ added' = [added EXCEPT ![s] = a]
          /\ removed' = [removed EXCEPT ![s] = r]
          /\ headerWrites' = [headerWrites EXCEPT ![s] = hw]
          /\ events' = [events EXCEPT ![s] = QueueAfter(events[s], evs)]
          /\ UNCHANGED <<transactions, transaction_entries, txState, fired, violation>>
          /\ UNCHANGED accessVars
     ELSE \E message \in raised : Abort(s, message)

\* DEFERRABLE INITIALLY DEFERRED: a statement of session s that leaves it the
\* uncommitted versions a, the rewritten rows r and the header writes hw ends with
\* its row events evs queued until COMMIT.
Statement(s, a, r, hw, evs) ==
  /\ Pending + Len(evs) <= MaxEvents
  /\ added' = [added EXCEPT ![s] = a]
  /\ removed' = [removed EXCEPT ![s] = r]
  /\ headerWrites' = [headerWrites EXCEPT ![s] = hw]
  /\ events' = [events EXCEPT ![s] = QueueAfter(events[s], evs)]
  /\ UNCHANGED <<transactions, transaction_entries, txState, fired, violation>>
  /\ UNCHANGED accessVars

\* INSERT INTO transactions.
InsertHeader(s) ==
  /\ txState[s] = "Open"
  /\ Headers \ UsedHeaderIds # {}
  /\ Statement(s, added[s], removed[s],
               [headerWrites[s] EXCEPT ![NewHeaderId] = "inserted"], <<>>)

\* DELETE FROM transactions WHERE id = h. ON DELETE CASCADE deletes every entry
\* of the header, with one DELETE row event for each.
DeleteHeader(s, h) ==
  /\ txState[s] = "Open"
  /\ HeadersView(s)[h] # "absent"
  /\ ~HeaderLockedByOther(s, h)
  /\ ~HeaderReferencedByOther(s, h)
  /\ \A a \in AllAmounts : \A o \in Others(s) : removed[o][<<h, a>>] = 0
  /\ Statement(s,
       [k \in Kinds |-> IF k[1] = h THEN 0 ELSE added[s][k]],
       [k \in Kinds |-> IF k[1] = h THEN transaction_entries[k] ELSE removed[s][k]],
       [headerWrites[s] EXCEPT ![h] = "deleted"],
       [i \in 1..Aggregate(EntriesView(s), h).v_count |->
          [op |-> "DELETE", old_tx |-> h, new_tx |-> NoHeader]])

\* INSERT INTO transaction_entries (transaction_id, amount) VALUES (h, amt).
InsertEntry(s, h, amt) ==
  /\ txState[s] = "Open"
  /\ ForeignKeyOk(s, h)
  /\ Stored < MaxLines
  /\ Statement(s, [added[s] EXCEPT ![<<h, amt>>] = @ + 1], removed[s], headerWrites[s],
               <<[op |-> "INSERT", old_tx |-> NoHeader, new_tx |-> h]>>)

\* UPDATE transaction_entries SET transaction_id = k2[1], amount = k2[2]
\* WHERE id = <a row of kind k>: one of the session's own uncommitted versions
\* (own), or a committed row no transaction in progress holds locked.
UpdateEntry(s, k, own, k2) ==
  /\ txState[s] = "Open"
  /\ k2 # k
  /\ ForeignKeyOk(s, k2[1])
  /\ IF own THEN added[s][k] > 0 ELSE Unlocked(k) > 0 /\ Stored < MaxLines
  /\ Statement(s,
       IF own THEN [added[s] EXCEPT ![k] = @ - 1, ![k2] = @ + 1]
              ELSE [added[s] EXCEPT ![k2] = @ + 1],
       IF own THEN removed[s] ELSE [removed[s] EXCEPT ![k] = @ + 1],
       headerWrites[s],
       <<[op |-> "UPDATE", old_tx |-> k[1], new_tx |-> k2[1]]>>)

\* DELETE FROM transaction_entries WHERE id = <a row of kind k>.
DeleteEntry(s, k, own) ==
  /\ txState[s] = "Open"
  /\ IF own THEN added[s][k] > 0 ELSE Unlocked(k) > 0
  /\ Statement(s,
       IF own THEN [added[s] EXCEPT ![k] = @ - 1] ELSE added[s],
       IF own THEN removed[s] ELSE [removed[s] EXCEPT ![k] = @ + 1],
       headerWrites[s],
       <<[op |-> "DELETE", old_tx |-> k[1], new_tx |-> NoHeader]>>)

\* Commit without the deferred trigger (the trigger dropped or disabled): the
\* writes become the committed state at once.
Commit_NoTrigger(s) ==
  /\ txState[s] = "Open"
  /\ transaction_entries' = EntriesView(s)
  /\ transactions' = HeadersView(s)
  /\ txState' = [txState EXCEPT ![s] = "Committed"]
  /\ EndTransaction(s)
  /\ UNCHANGED violation
  /\ UNCHANGED accessVars

\* COMMIT is issued: the deferred trigger events start to fire.
Commit(s) ==
  /\ txState[s] = "Open"
  /\ txState' = [txState EXCEPT ![s] = "Committing"]
  /\ UNCHANGED <<transactions, transaction_entries, headerWrites, added, removed,
                 events, fired, violation>>
  /\ UNCHANGED accessVars

\* FireTrigger for a function that, having validated a header, touches its lines
\* (UPDATE ... SET updated_at), which queues the trigger again.
FireTrigger_Touching(s) ==
  /\ txState[s] = "Committing"
  /\ fired[s] < Len(events[s])
  /\ LET tx == events[s][fired[s] + 1]
         raised == validate_transaction_entries(EntriesView(s), tx)
     IN IF raised = NoViolation
        THEN /\ fired' = [fired EXCEPT ![s] = fired[s] + 1]
             /\ events' = [events EXCEPT ![s] =
                             IF Len(events[s]) < MaxEvents THEN Append(@, tx) ELSE @]
             /\ UNCHANGED <<transactions, transaction_entries, txState, headerWrites,
                            added, removed, violation>>
             /\ UNCHANGED accessVars
        ELSE Abort(s, raised)

\* The trigger fires for the next queued row event: the function validates the
\* event's header, and RAISE EXCEPTION aborts the ambient transaction.
FireTrigger(s) ==
  /\ txState[s] = "Committing"
  /\ fired[s] < Len(events[s])
  /\ LET tx == events[s][fired[s] + 1]
         raised == validate_transaction_entries(EntriesView(s), tx)
     IN IF raised = NoViolation
        THEN /\ fired' = [fired EXCEPT ![s] = fired[s] + 1]
             /\ UNCHANGED <<transactions, transaction_entries, txState, headerWrites,
                            added, removed, events, violation>>
             /\ UNCHANGED accessVars
        ELSE Abort(s, raised)

\* Every queued event has fired without an exception: the writes become the
\* committed state.
Finalize(s) ==
  /\ txState[s] = "Committing"
  /\ fired[s] = Len(events[s])
  /\ transaction_entries' = EntriesView(s)
  /\ transactions' = HeadersView(s)
  /\ txState' = [txState EXCEPT ![s] = "Committed"]
  /\ EndTransaction(s)
  /\ UNCHANGED violation
  /\ UNCHANGED accessVars

\* ROLLBACK issued by the client.
Rollback(s) ==
  /\ txState[s] = "Open"
  /\ Abort(s, NoViolation)

\* One statement, or one step of COMMIT, of the ambient transaction of session s.
Step(s) ==
  \/ InsertHeader(s)
  \/ \E h \in Headers : DeleteHeader(s, h)
  \/ \E h \in Headers, amt \in Amounts : InsertEntry(s, h, amt)
  \/ \E k \in WrittenKinds, own \in BOOLEAN, k2 \in WrittenKinds :
       UpdateEntry(s, k, own, k2)
  \/ \E k \in WrittenKinds, own \in BOOLEAN : DeleteEntry(s, k, own)
  \/ Commit(s)
  \/ FireTrigger(s)
  \/ Finalize(s)
  \/ Rollback(s)

\* One client: ambient transactions run one after the other, from the empty
\* database the migrations create.
Next == Begin("s1") \/ Step("s1")

Spec == Init /\ [][Next]_vars

\* ------------------------------------------------ concurrent sessions
\* A committed ledger in which every header with entries is balanced.
BalancedLedger(hs, es) ==
  /\ \A k \in Kinds : hs[k[1]] = "absent" => es[k] = 0
  /\ \A h \in Headers :
       LET a == Aggregate(es, h)
       IN a.v_count = 0 \/ (a.v_count >= 2 /\ a.v_sum = 0)

\* Two clients, each running one ambient transaction, over a committed balanced
\* ledger of at most MaxCommitted rows in which the first header exists.
InitConcurrent ==
  /\ transactions \in [Headers -> {"present", "absent"}]
  /\ transactions[HeaderOrder[1]] = "present"
  /\ transaction_entries \in [Kinds -> 0..MaxCommitted]
  /\ Sum(transaction_entries, WrittenKinds) <= MaxCommitted
  /\ \A k \in Kinds \ WrittenKinds : transaction_entries[k] = 0
  /\ BalancedLedger(transactions, transaction_entries)
  /\ txState = [s \in Sessions |-> "Idle"]
  /\ headerWrites = [s \in Sessions |-> NoHeaderWrites]
  /\ added = [s \in Sessions |-> NoRows]
  /\ removed = [s \in Sessions |-> NoRows]
  /\ events = [s \in Sessions |-> <<>>]
  /\ fired = [s \in Sessions |-> 0]
  /\ violation = [s \in Sessions |-> NoViolation]
  /\ NoAccess

NextConcurrent ==
  \E s \in Sessions : (txState[s] = "Idle" /\ Begin(s)) \/ Step(s)

SpecConcurrent == InitConcurrent /\ [][NextConcurrent]_vars

\* ------------------------------------------- two sessions on one header
\* One statement, or one step of COMMIT, of a session that writes lines of any
\* amount, zero included.
StepAnyAmount(s) ==
  \/ \E h \in Headers, amt \in AllAmounts : InsertEntry(s, h, amt)
  \/ \E k \in Kinds, own \in BOOLEAN, k2 \in Kinds : UpdateEntry(s, k, own, k2)
  \/ \E k \in Kinds, own \in BOOLEAN : DeleteEntry(s, k, own)
  \/ Commit(s)
  \/ FireTrigger(s)
  \/ Finalize(s)
  \/ Rollback(s)

\* Two clients, each running one ambient transaction on the lines of the one
\* committed header, which is balanced and has at most MaxShared lines.
InitSharedHeader ==
  /\ transactions = [h \in Headers |-> IF h = HeaderOrder[1] THEN "present" ELSE "absent"]
  /\ transaction_entries \in [Kinds -> 0..MaxShared]
  /\ Sum(transaction_entries, Kinds) <= MaxShared
  /\ BalancedLedger(transactions, transaction_entries)
  /\ txState = [s \in Sessions |-> "Idle"]
  /\ headerWrites = [s \in Sessions |-> NoHeaderWrites]
  /\ added = [s \in Sessions |-> NoRows]
  /\ removed = [s \in Sessions |-> NoRows]
  /\ events = [s \in Sessions |-> <<>>]
  /\ fired = [s \in Sessions |-> 0]
  /\ violation = [s \in Sessions |-> NoViolation]
  /\ NoAccess

NextSharedHeader ==
  \E s \in Sessions : (txState[s] = "Idle" /\ Begin(s)) \/ StepAnyAmount(s)

SpecSharedHeader == InitSharedHeader /\ [][NextSharedHeader]_vars

\* ------------------------------------------------ row level security
\* EXISTS (SELECT 1 FROM public.company_users cu
\*         WHERE cu.company_id = t AND cu.user_id = auth.uid()).
Member(u, t) == <<t, u>> \in company_users

\* public.has_role(_user_id, _role).
has_role(_user_id, _role) == <<_user_id, _role>> \in user_roles

\* PermissiveUsing with the membership not correlated to the row's company_id.
PermissiveUsing_AnyCompany(table, u, t) ==
  CASE table = "companies" -> (\E c \in Tenants : Member(u, c)) \/ has_role(u, "admin")
    [] table = "transaction_entries" -> FALSE
    [] OTHER -> \E c \in Tenants : Member(u, c)

\* The USING expressions of the permissive policies of a table, OR-ed. The one
\* policy of transaction_entries is AS RESTRICTIVE: the table has no permissive
\* policy, and without one no row passes.
PermissiveUsing(table, u, t) ==
  CASE table = "companies" -> Member(u, t) \/ (Member(u, t) \/ has_role(u, "admin"))
    [] table = "transaction_entries" -> FALSE
    [] OTHER -> Member(u, t)

\* The USING expressions of the restrictive policies of a table, AND-ed.
RestrictiveUsing(table, u, t) ==
  table = "transaction_entries" => Member(u, t)

\* PermissiveWithCheck of policies declared WITH CHECK (true).
PermissiveWithCheck_True(table, u, t) == table # "transaction_entries"

\* The WITH CHECK expressions of the permissive policies of a table, OR-ed.
PermissiveWithCheck(table, u, t) ==
  CASE table = "companies" -> Member(u, t) \/ has_role(u, "admin")
    [] table = "transaction_entries" -> FALSE
    [] OTHER -> Member(u, t)

\* The WITH CHECK expressions of the restrictive policies of a table, AND-ed.
RestrictiveWithCheck(table, u, t) ==
  table = "transaction_entries" => Member(u, t)

\* An existing row of company t of the table is visible to the role p (SELECT,
\* and the rows an UPDATE or DELETE may touch).
PassesUsing(p, table, t) ==
  p = Owner \/ (PermissiveUsing(table, p, t) /\ RestrictiveUsing(table, p, t))

\* A new row version of company t may be written to the table by the role p.
PassesWithCheck(p, table, t) ==
  p = Owner \/ (PermissiveWithCheck(table, p, t) /\ RestrictiveWithCheck(table, p, t))

Roles == Users \cup {Owner}

\* For a line of transaction_entries, the company_id of the row of
\* public.transactions its transaction_id references: the lines of the requests
\* below belong to headers of one tenant.
HeaderCompany(r) == "A"
Existing == {r \in RowIds : company_id[r] # NoRow}

\* A request has been answered.
Answer(p, cmd, affected, err) ==
  /\ result' = [by |-> p, command |-> cmd, rows |-> affected, error |-> err]
  /\ UNCHANGED <<ledgerVars, pc, browserVars>>

\* SELECT * FROM <relation>.
Select(p) ==
  /\ relation # NoTable
  /\ Answer(p, "SELECT", {r \in Existing : PassesUsing(p, relation, company_id[r])}, FALSE)
  /\ UNCHANGED <<company_users, user_roles, relation, company_id>>

\* INSERT INTO <relation> (id, company_id) VALUES (r, t).
Insert(p, r, t) ==
  /\ relation # NoTable
  /\ r \notin Existing
  /\ IF PassesWithCheck(p, relation, t)
     THEN /\ company_id' = [company_id EXCEPT ![r] = t]
          /\ Answer(p, "INSERT", {r}, FALSE)
     ELSE /\ UNCHANGED company_id
          /\ Answer(p, "INSERT", {}, TRUE)
  /\ UNCHANGED <<company_users, user_roles, relation>>

\* UPDATE <relation> SET company_id = t WHERE id = r.
Update(p, r, t) ==
  /\ relation # NoTable
  /\ r \in Existing
  /\ IF ~PassesUsing(p, relation, company_id[r])
     THEN /\ UNCHANGED company_id
          /\ Answer(p, "UPDATE", {}, FALSE)
     ELSE IF ~PassesWithCheck(p, relation, t)
     THEN /\ UNCHANGED company_id
          /\ Answer(p, "UPDATE", {}, TRUE)
     ELSE /\ company_id' = [company_id EXCEPT ![r] = t]
          /\ Answer(p, "UPDATE", {r}, FALSE)
  /\ UNCHANGED <<company_users, user_roles, relation>>

\* DELETE FROM <relation> WHERE id = r.
Delete(p, r) ==
  /\ relation # NoTable
  /\ r \in Existing
  /\ IF PassesUsing(p, relation, company_id[r])
     THEN /\ company_id' = [company_id EXCEPT ![r] = NoRow]
          /\ Answer(p, "DELETE", {r}, FALSE)
     ELSE /\ UNCHANGED company_id
          /\ Answer(p, "DELETE", {}, FALSE)
  /\ UNCHANGED <<company_users, user_roles, relation>>

\* INSERT INTO public.company_users (company_id, user_id) VALUES (t, u), under
\* the policy "Admins manage company_users".
LinkUser(p, u, t) ==
  /\ relation # NoTable
  /\ <<t, u>> \notin company_users
  /\ IF p = Owner \/ has_role(p, "admin")
     THEN /\ company_users' = company_users \cup {<<t, u>>}
          /\ Answer(p, "LINK", {}, FALSE)
     ELSE /\ UNCHANGED company_users
          /\ Answer(p, "LINK", {}, TRUE)
  /\ UNCHANGED <<user_roles, relation, company_id>>

\* DELETE FROM public.company_users WHERE company_id = t AND user_id = u.
UnlinkUser(p, u, t) ==
  /\ relation # NoTable
  /\ <<t, u>> \in company_users
  /\ company_users' = IF p = Owner \/ has_role(p, "admin")
                      THEN company_users \ {<<t, u>>} ELSE company_users
  /\ Answer(p, "UNLINK", {}, FALSE)
  /\ UNCHANGED <<user_roles, relation, company_id>>

\* Any tenancy tables, one of the six tables with any rows, and an empty ledger.
InitAccess ==
  /\ company_users \in SUBSET (Tenants \X Users)
  /\ user_roles \in SUBSET (Users \X {"admin"})
  /\ relation \in Tables
  /\ company_id \in [RowIds -> Tenants \cup {NoRow}]
  /\ result = NoRequest
  /\ pc = NoHandler
  /\ NoBrowser
  /\ transactions = [h \in Headers |-> "absent"]
  /\ transaction_entries = NoRows
  /\ txState = [s \in Sessions |-> "Idle"]
  /\ headerWrites = [s \in Sessions |-> NoHeaderWrites]
  /\ added = [s \in Sessions |-> NoRows]
  /\ removed = [s \in Sessions |-> NoRows]
  /\ events = [s \in Sessions |-> <<>>]
  /\ fired = [s \in Sessions |-> 0]
  /\ violation = [s \in Sessions |-> NoViolation]

NextAccess ==
  \E p \in Roles :
    \/ Select(p)
    \/ \E r \in RowIds, t \in Tenants : Insert(p, r, t)
    \/ \E r \in RowIds, t \in Tenants : Update(p, r, t)
    \/ \E r \in RowIds : Delete(p, r)
    \/ \E u \in Users, t \in Tenants : LinkUser(p, u, t)
    \/ \E u \in Users, t \in Tenants : UnlinkUser(p, u, t)

SpecAccess == InitAccess /\ [][NextAccess]_vars

\* ------------------------------------------------ TransactionsPage (App.tsx)
\* The page talks to the database through supabase-js: every awaited call is one
\* HTTP request, which the REST gateway runs as one statement in an ambient
\* transaction of its own and commits before it answers. The session of the page
\* is Client; it runs here as a role the policies let write the tables.
Client == "s1"

\* The lines a submitted form holds: zod asks for two lines or more, onSubmit
\* for debits and credits that sum to zero.
SignedLines == {l \in [Amounts -> 1..2] : Sum([a \in Amounts |-> a * l[a]], Amounts) = 0}

\* await supabase.from(...)...: BEGIN, one statement that leaves the uncommitted
\* versions a, the deleted rows r, the header writes hw and queues the row events
\* evs, then COMMIT, whose deferred triggers FireTrigger and Finalize run.
Request(s, a, r, hw, evs) ==
  /\ txState[s] \in {"Idle", "Committed", "Aborted"}
  /\ Pending + Len(evs) <= MaxEvents
  /\ txState' = [txState EXCEPT ![s] = "Committing"]
  /\ violation' = [violation EXCEPT ![s] = NoViolation]
  /\ added' = [added EXCEPT ![s] = a]
  /\ removed' = [removed EXCEPT ![s] = r]
  /\ headerWrites' = [headerWrites EXCEPT ![s] = hw]
  /\ events' = [events EXCEPT ![s] = QueueAfter(<<>>, evs)]
  /\ UNCHANGED <<transactions, transaction_entries, fired>>
  /\ UNCHANGED <<tenancyVars, browserVars>>

\* The committed lines of header h.
LinesOf(h) == [k \in Kinds |-> IF k[1] = h THEN transaction_entries[k] ELSE 0]

\* from("transaction_entries").delete().eq("transaction_id", h): one request.
RequestDeleteLines(s, h) ==
  Request(s, NoRows, LinesOf(h), NoHeaderWrites,
          [i \in 1..Sum(LinesOf(h), Kinds) |->
             [op |-> "DELETE", old_tx |-> h, new_tx |-> NoHeader]])

\* The request the handler awaits has been answered without an error.
Answered(at) == pc.at = at /\ txState[Client] = "Committed"

\* onSubmit in edit mode, the form holding the header row as handleEdit loaded
\* it: UPDATE the header row with the fields of the form, a request of its own.
SubmitEdit(h) ==
  /\ pc = NoHandler
  /\ transactions[h] # "absent"
  /\ Request(Client, NoRows, NoRows, [NoHeaderWrites EXCEPT ![h] = "updated"], <<>>)
  /\ pc' = [at |-> "edit:update", transactionId |-> h, loaded |-> transactions[h]]

\* onSubmit in edit mode, after the update: DELETE the lines of the header, a
\* request of its own.
DeleteOldLines ==
  /\ Answered("edit:update")
  /\ RequestDeleteLines(Client, pc.transactionId)
  /\ pc' = [pc EXCEPT !.at = "edit:delete"]

\* onSubmit in create mode: INSERT the header row and read its id back.
SubmitCreate ==
  /\ pc = NoHandler
  /\ Headers \ UsedHeaderIds # {}
  /\ Request(Client, NoRows, NoRows, [NoHeaderWrites EXCEPT ![NewHeaderId] = "inserted"],
             <<>>)
  /\ pc' = [at |-> "create:insert", transactionId |-> NewHeaderId, loaded |-> "absent"]

\* onSubmit, both modes: INSERT the lines of the form in one statement, a request
\* of its own.
InsertLines(lines) ==
  /\ Answered("edit:delete") \/ Answered("create:insert")
  /\ Stored + Sum(lines, Amounts) <= MaxLines
  /\ Request(Client,
             [k \in Kinds |-> IF k[1] = pc.transactionId /\ k[2] \in Amounts
                              THEN lines[k[2]] ELSE 0],
             NoRows, NoHeaderWrites,
             [i \in 1..Sum(lines, Amounts) |->
                [op |-> "INSERT", old_tx |-> NoHeader, new_tx |-> pc.transactionId]])
  /\ pc' = [pc EXCEPT !.at = IF pc.at = "edit:delete" THEN "edit:lines" ELSE "create:lines"]

\* handleDelete: DELETE the lines of the header, a request of its own.
HandleDelete(h) ==
  /\ pc = NoHandler
  /\ transactions[h] # "absent"
  /\ RequestDeleteLines(Client, h)
  /\ pc' = [at |-> "delete:lines", transactionId |-> h, loaded |-> transactions[h]]

\* handleDelete, after the lines: DELETE the header row, a request of its own
\* (ON DELETE CASCADE for the lines still there).
DeleteHeaderRow ==
  /\ Answered("delete:lines")
  /\ Request(Client, NoRows, LinesOf(pc.transactionId),
             [NoHeaderWrites EXCEPT ![pc.transactionId] = "deleted"],
             [i \in 1..Sum(LinesOf(pc.transactionId), Kinds) |->
                [op |-> "DELETE", old_tx |-> pc.transactionId, new_tx |-> NoHeader]])
  /\ pc' = [pc EXCEPT !.at = "delete:header"]

\* The handler returns: after the error of a request (toast, return), or after
\* its last request.
Return ==
  /\ pc # NoHandler
  /\ \/ txState[Client] = "Aborted"
     \/ Answered("edit:lines")
     \/ Answered("create:lines")
     \/ Answered("delete:header")
  /\ pc' = NoHandler
  /\ UNCHANGED <<ledgerVars, tenancyVars, browserVars>>

\* The request that follows the one answered at `at`.
FollowUp(at) ==
  CASE at = "edit:update" -> "edit:delete"
    [] at = "edit:delete" -> "edit:lines"
    [] at = "create:insert" -> "create:lines"
    [] at = "delete:lines" -> "delete:header"

\* The next request of the handler is answered with an error that is not the
\* trigger's (the statement is refused by a policy or a constraint, or fetch
\* fails): it writes nothing, and supabase-js hands the error to the handler.
RequestFails ==
  /\ \/ Answered("edit:update")
     \/ Answered("edit:delete")
     \/ Answered("create:insert")
     \/ Answered("delete:lines")
  /\ pc' = [pc EXCEPT !.at = FollowUp(pc.at)]
  /\ txState' = [txState EXCEPT ![Client] = "Aborted"]
  /\ UNCHANGED <<transactions, transaction_entries, headerWrites, added, removed,
                 events, fired, violation>>
  /\ UNCHANGED <<tenancyVars, browserVars>>

NextApp ==
  \/ SubmitCreate
  \/ \E h \in Headers : SubmitEdit(h)
  \/ DeleteOldLines
  \/ \E lines \in SignedLines : InsertLines(lines)
  \/ \E h \in Headers : HandleDelete(h)
  \/ DeleteHeaderRow
  \/ Return
  \/ RequestFails
  \/ FireTrigger(Client)
  \/ Finalize(Client)

\* One page, working on the empty database the migrations create.
SpecApp == Init /\ [][NextApp]_vars

\* ------------------------------------------- the transaction form (App.tsx)
\* Amounts typed into the form, as the zod transform parsed them: Numbers.
FormAmounts == {0, 1, 2, 2 ^ MantissaBits}
FormLine == [side : {"debit", "credit"}, amount : FormAmounts]
Forms == UNION {[1..n -> FormLine] : n \in 1..MaxFormLines}

RECURSIVE Ulp(_, _)
\* The spacing of the Numbers around the magnitude n.
Ulp(n, e) == IF n < 2 ^ (MantissaBits + e) THEN 2 ^ e ELSE Ulp(n, e + 1)

\* A real x as a Number: the nearest value with MantissaBits significant bits,
\* ties to the even one.
RoundToNumber(x) ==
  LET n == IF x < 0 THEN -x ELSE x
      u == Ulp(n, 0)
      q == n \div u
      r == n % u
      m == IF 2 * r < u THEN q
           ELSE IF 2 * r > u THEN q + 1
           ELSE IF q % 2 = 0 THEN q ELSE q + 1
  IN IF x < 0 THEN -(m * u) ELSE m * u

\* sum + line.amount in JavaScript.
NumberAdd(x, y) == RoundToNumber(x + y)

\* signedLines: amount for a debit, -amount for a credit.
signedLines(lines) ==
  [i \in 1..Len(lines) |->
     IF lines[i].side = "debit" THEN lines[i].amount ELSE -lines[i].amount]

RECURSIVE reduce(_, _)
\* signedLines.reduce((sum, line) => sum + line.amount, 0).
reduce(signed, sum) ==
  IF signed = <<>> THEN sum ELSE reduce(Tail(signed), NumberAdd(sum, Head(signed)))

\* total of onSubmit.
total(lines) == reduce(signedLines(lines), 0)

\* transactionSchema: two lines or more, every amount positive.
transactionSchema(lines) ==
  /\ Len(lines) >= 2
  /\ \A i \in 1..Len(lines) : lines[i].amount > 0

RECURSIVE SumSeq(_)
\* SUM(amount) over a column of type numeric: exact.
SumSeq(q) == IF q = <<>> THEN 0 ELSE Head(q) + SumSeq(Tail(q))

\* The user presses save: handleSubmit validates with the schema, and onSubmit
\* sends its requests unless total !== 0.
SubmitForm ==
  /\ form.submitted = "no"
  /\ form' = [form EXCEPT !.submitted =
                IF transactionSchema(form.lines) /\ total(form.lines) = 0
                THEN "sent" ELSE "rejected"]
  /\ UNCHANGED <<ledgerVars, tenancyVars, pc, invite, platformVars>>

\* The lines of a form that was sent are inserted for its new header, and the
\* trigger validates that header at the COMMIT of the request.
CheckForm ==
  /\ form.submitted = "sent"
  /\ form' = [form EXCEPT
                !.submitted = "answered",
                !.raised = RaiseFor([v_sum |-> SumSeq(signedLines(form.lines)),
                                     v_count |-> Len(form.lines)])]
  /\ UNCHANGED <<ledgerVars, tenancyVars, pc, invite, platformVars>>

\* The dialog open in create mode with any lines typed in.
InitForm ==
  /\ EmptyLedger
  /\ NoTenancy
  /\ pc = NoHandler
  /\ invite = NoInvite
  /\ NoPlatform
  /\ form \in [lines : Forms, submitted : {"no"}, raised : {NoViolation}]

NextForm == SubmitForm \/ CheckForm

SpecForm == InitForm /\ [][NextForm]_vars

\* ---------------------------------------- the invite-user edge function
\* email.length > 255.
MaxEmailLength == 255

\* Request bodies: text that is no JSON, or an InvitePayload whose email is
\* missing or has `blanks` spaces around `chars` other characters, and whose
\* companyId and role are present or not.
Emails ==
  {[present |-> FALSE, blanks |-> 0, chars |-> 0]}
  \cup [present : {TRUE}, blanks : {0, 1}, chars : {0, 1, MaxEmailLength, MaxEmailLength + 1}]
Bodies ==
  {NoInviteRequest.body}
  \cup [json : {TRUE}, email : Emails, companyId : BOOLEAN, role : BOOLEAN]

\* Authorization headers: absent, of another scheme, or a Bearer token that
\* auth.getUser resolves to a user or to none.
Authorizations ==
  [scheme : {"absent", "Basic"}, user : {"nobody"}]
  \cup [scheme : {"Bearer"}, user : Users \cup {"nobody"}]

InviteRequests ==
  [method : {"OPTIONS", "GET", "POST"}, authorization : Authorizations, body : Bodies,
   inviteError : BOOLEAN]

\* body.email?.trim().toLowerCase(): the length of the result, 0 when undefined.
TrimmedLength(email) == IF ~email.present THEN 0 ELSE email.chars

\* The Response of the handler and whether it called inviteUserByEmail.
Respond(status, called) == [status |-> status, called |-> called]

\* Handler without the check of the caller's admin role.
Handler_AnyCaller(req) ==
  IF req.method = "OPTIONS" THEN Respond(200, FALSE)
  ELSE IF req.method # "POST" THEN Respond(405, FALSE)
  ELSE IF req.authorization.scheme # "Bearer" THEN Respond(401, FALSE)
  ELSE IF req.authorization.user = "nobody" THEN Respond(401, FALSE)
  ELSE IF ~req.body.json THEN Respond(500, FALSE)
  ELSE IF TrimmedLength(req.body.email) = 0 \/ ~req.body.companyId \/ ~req.body.role
       THEN Respond(400, FALSE)
  ELSE IF TrimmedLength(req.body.email) > MaxEmailLength THEN Respond(400, FALSE)
  ELSE IF req.inviteError THEN Respond(400, TRUE)
  ELSE Respond(200, TRUE)

\* Deno.serve(async (req) => ...).
Handler(req) ==
  IF req.method = "OPTIONS" THEN Respond(200, FALSE)
  ELSE IF req.method # "POST" THEN Respond(405, FALSE)
  ELSE IF req.authorization.scheme # "Bearer" THEN Respond(401, FALSE)
  ELSE IF req.authorization.user = "nobody" THEN Respond(401, FALSE)
  ELSE IF ~req.body.json THEN Respond(500, FALSE)
  ELSE IF TrimmedLength(req.body.email) = 0 \/ ~req.body.companyId \/ ~req.body.role
       THEN Respond(400, FALSE)
  ELSE IF TrimmedLength(req.body.email) > MaxEmailLength THEN Respond(400, FALSE)
  ELSE IF ~has_role(req.authorization.user, "admin") THEN Respond(403, FALSE)
  ELSE IF req.inviteError THEN Respond(400, TRUE)
  ELSE Respond(200, TRUE)

\* The function serves the request it got.
ServeInvite ==
  /\ invite.req # NoInviteRequest
  /\ invite.status = 0
  /\ invite' = [invite EXCEPT !.status = Handler(invite.req).status,
                              !.called = Handler(invite.req).called]
  /\ UNCHANGED <<ledgerVars, tenancyVars, pc, form, platformVars>>

\* Any request, from any caller, with any global roles granted.
InitInvite ==
  /\ EmptyLedger
  /\ company_users = {}
  /\ user_roles \in SUBSET (Users \X {"admin"})
  /\ relation = NoTable
  /\ company_id = [r \in RowIds |-> NoRow]
  /\ result = NoRequest
  /\ pc = NoHandler
  /\ form = NoForm
  /\ NoPlatform
  /\ invite \in [req : InviteRequests, status : {0}, called : {FALSE}]

NextInvite == ServeInvite

SpecInvite == InitInvite /\ [][NextInvite]_vars

\* ------------------------------------------------- accounts and membership
\* Metadata a new account is created with: raw_user_meta_data->>'company_id',
\* or none.
MetaData == Tenants \cup {NoRow}

\* handle_new_user_company_link(): the rows of company_users after the trigger
\* on auth.users has run for the new account new_id.
handle_new_user_company_link(new_id, v_company_id) ==
  IF v_company_id # NoRow
  THEN company_users \cup {<<v_company_id, new_id>>}
  ELSE company_users

\* INSERT INTO auth.users with its AFTER INSERT trigger; the foreign key of
\* company_users.company_id fails the insert for a company that does not exist.
CreateAccount(u, meta) ==
  IF meta \in companies \cup {NoRow}
  THEN /\ auth_users' = auth_users \cup {u}
       /\ company_users' = handle_new_user_company_link(u, meta)
  ELSE UNCHANGED <<auth_users, company_users>>

\* supabase.auth.signUp({ email, password, options: { data } }): anybody creates
\* the account u, with the metadata the request carries.
SignUp(u, meta) ==
  /\ u \notin auth_users
  /\ CreateAccount(u, meta)
  /\ result' = [by |-> u, command |-> "SIGNUP", rows |-> {},
                error |-> meta \notin companies \cup {NoRow}]
  /\ UNCHANGED <<ledgerVars, user_roles, relation, company_id, pc, form, invite,
                 companies, auth, inits>>

\* supabase.functions.invoke("invite-user", { body }) of the Users page, with the
\* session of p: a POST with a payload the invite form has validated.
InvokeInvite(p, fails) ==
  [method |-> "POST", authorization |-> [scheme |-> "Bearer", user |-> p],
   body |-> [json |-> TRUE, email |-> [present |-> TRUE, blanks |-> 0, chars |-> 1],
             companyId |-> TRUE, role |-> TRUE],
   inviteError |-> fails]

\* A request of the signed-up user p to the invite-user function, to invite u
\* to company t: inviteUserByEmail creates the account with the company in its
\* metadata, and fails for an account that exists.
InviteUser(p, u, t) ==
  LET req == InvokeInvite(p, u \in auth_users \/ t \notin companies)
  IN /\ p \in auth_users
     /\ invite' = [req |-> req, status |-> Handler(req).status,
                   called |-> Handler(req).called]
     /\ IF Handler(req).called /\ ~req.inviteError
        THEN CreateAccount(u, t)
        ELSE UNCHANGED <<auth_users, company_users>>
     /\ result' = [by |-> p, command |-> "INVITE", rows |-> {},
                   error |-> Handler(req).status # 200]
     /\ UNCHANGED <<ledgerVars, user_roles, relation, company_id, pc, form,
                    companies, auth, inits>>

\* INSERT INTO public.companies (id) VALUES (t) by the signed-in user p, under
\* the policies of companies.
InsertCompany(p, t) ==
  /\ p \in auth_users
  /\ t \notin companies
  /\ companies' = IF PassesWithCheck(p, "companies", t) THEN companies \cup {t}
                  ELSE companies
  /\ result' = [by |-> p, command |-> "INSERT", rows |-> {},
                error |-> ~PassesWithCheck(p, "companies", t)]
  /\ UNCHANGED <<ledgerVars, company_users, user_roles, relation, company_id, pc,
                 form, invite, auth_users, auth, inits>>

\* Accounts, some of them global admins, companies, and the links the admins
\* have made so far.
InitMembership ==
  /\ EmptyLedger
  /\ auth_users \in SUBSET Users
  /\ user_roles \in SUBSET (auth_users \X {"admin"})
  /\ companies \in SUBSET Tenants
  /\ company_users \in SUBSET (companies \X auth_users)
  /\ (user_roles = {}) => (company_users = {})
  /\ relation = "companies"
  /\ company_id = [r \in RowIds |-> NoRow]
  /\ result = NoRequest
  /\ pc = NoHandler
  /\ form = NoForm
  /\ invite = NoInvite
  /\ auth = NoAuth
  /\ inits = <<>>

NextMembership ==
  \/ \E u \in Users, meta \in MetaData : SignUp(u, meta)
  \/ \E p \in Users, u \in Users, t \in Tenants : InviteUser(p, u, t)
  \/ \E p \in Users, t \in Tenants : InsertCompany(p, t)
  \/ \E p \in auth_users, u \in auth_users, t \in companies : LinkUser(p, u, t)
  \/ \E p \in auth_users, u \in auth_users, t \in companies : UnlinkUser(p, u, t)

SpecMembership == InitMembership /\ [][NextMembership]_vars

\* --------------------------------------------- AuthProvider (AuthContext.tsx)
\* The requests of init are made with the session the client holds when it sends
\* them, which is the user of the provider; each answer is read when it arrives.

\* SELECT ... FROM profiles WHERE id = u, as the session of `session`: the policy
\* "Users can view own profile".
SelectProfile(session, u) == IF session = u THEN {u} ELSE {}

\* SELECT company_id FROM company_users WHERE user_id = u, as the session of
\* `session`: the policies "Users see own company links" and "Admins manage
\* company_users".
SelectLinks(session, u) ==
  IF session = u \/ (session # NoUser /\ has_role(session, "admin"))
  THEN {t \in Tenants : <<t, u>> \in company_users}
  ELSE {}

\* gen_random_uuid() for companies.id.
NewCompanyId == CHOOSE t \in Tenants \ companies : TRUE

\* The second effect of AuthProvider, run when `user` has changed to u.
UserEffect(a, u) ==
  IF u = NoUser
  THEN [a EXCEPT !.user = NoUser, !.profile = NoUser, !.currentCompany = NoCompany,
                 !.companies = {}]
  ELSE [a EXCEPT !.user = u, !.initializing = TRUE]

\* setTimeout(() => { init() ... }, 0) of that effect.
Scheduled(q, u) ==
  IF u = NoUser THEN q ELSE Append(q, [user |-> u, at |-> "timer", data |-> {}])

\* The init callbacks without the i-th.
Without(q, i) == [j \in 1..(Len(q) - 1) |-> IF j < i THEN q[j] ELSE q[j + 1]]

\* getSession() resolves with the stored session of u, or with none.
SessionLoaded(u) ==
  /\ auth.loading
  /\ u # NoUser => Len(inits) < MaxInits
  /\ auth' = [(IF u = auth.user THEN auth ELSE UserEffect(auth, u)) EXCEPT !.loading = FALSE]
  /\ inits' = IF u = auth.user THEN inits ELSE Scheduled(inits, u)
  /\ UNCHANGED <<ledgerVars, tenancyVars, pc, form, invite, auth_users, companies>>

\* onAuthStateChange: a sign-in, a refreshed token (a new User object of the same
\* user), or a sign-out.
AuthStateChange(u) ==
  /\ u # NoUser \/ auth.user # NoUser
  /\ u # NoUser => Len(inits) < MaxInits
  /\ auth' = UserEffect(auth, u)
  /\ inits' = Scheduled(inits, u)
  /\ UNCHANGED <<ledgerVars, tenancyVars, pc, form, invite, auth_users, companies>>

\* The timer of the i-th init fires: init sends the select of the profile.
InitStarts(i) ==
  /\ inits[i].at = "timer"
  /\ inits' = [inits EXCEPT ![i].at = "profile",
                            ![i].data = SelectProfile(auth.user, inits[i].user)]
  /\ UNCHANGED <<ledgerVars, tenancyVars, pc, form, invite, auth_users, companies, auth>>

\* The profile arrives: setProfile when there is one (the insert of a default
\* profile, tried otherwise, is refused to another session), and init sends the
\* select of the company links.
ProfileArrives(i) ==
  /\ inits[i].at = "profile"
  /\ auth' = IF inits[i].data # {} THEN [auth EXCEPT !.profile = inits[i].user] ELSE auth
  /\ inits' = [inits EXCEPT ![i].at = "links",
                            ![i].data = SelectLinks(auth.user, inits[i].user)]
  /\ UNCHANGED <<ledgerVars, tenancyVars, pc, form, invite, auth_users, companies>>

\* LinksArrive keeping the previous currentCompany whatever the links are.
LinksArrive_KeepPrevious(i, first) ==
  /\ inits[i].at = "links"
  /\ inits[i].data # {}
  /\ first \in inits[i].data
  /\ auth' = [auth EXCEPT
                !.companies = inits[i].data,
                !.currentCompany = IF @ # NoCompany THEN @ ELSE first,
                !.initializing = FALSE]
  /\ inits' = Without(inits, i)
  /\ UNCHANGED <<ledgerVars, tenancyVars, pc, form, invite, auth_users, companies>>

\* The links arrive and there are some: setCompanies, setCurrentCompany (the
\* previous one when it is among them, else the first of them, in the order the
\* database returned them), setInitializing(false).
LinksArrive(i, first) ==
  /\ inits[i].at = "links"
  /\ inits[i].data # {}
  /\ first \in inits[i].data
  /\ auth' = [auth EXCEPT
                !.companies = inits[i].data,
                !.currentCompany = IF @ \in inits[i].data THEN @ ELSE first,
                !.initializing = FALSE]
  /\ inits' = Without(inits, i)
  /\ UNCHANGED <<ledgerVars, tenancyVars, pc, form, invite, auth_users, companies>>

\* The links arrive and there is none: init sends the insert of "Empresa
\* Principal", which the policies of companies pass or refuse.
NoLinksArrive(i) ==
  /\ inits[i].at = "links"
  /\ inits[i].data = {}
  /\ Tenants \ companies # {}
  /\ LET created == auth.user # NoUser /\ PassesWithCheck(auth.user, "companies", NewCompanyId)
     IN /\ companies' = IF created THEN companies \cup {NewCompanyId} ELSE companies
        /\ inits' = [inits EXCEPT ![i].at = "company",
                                  ![i].data = IF created THEN {NewCompanyId} ELSE {}]
  /\ UNCHANGED <<ledgerVars, tenancyVars, pc, form, invite, auth_users, auth>>

\* The answer of the insert arrives: with a new company, init inserts the link
\* of its user (under "Admins manage company_users", its error not looked at),
\* then setCompanies and setCurrentCompany; in any case setInitializing(false).
CompanyArrives(i) ==
  /\ inits[i].at = "company"
  /\ LET new == inits[i].data
         linked == auth.user # NoUser /\ has_role(auth.user, "admin")
     IN /\ company_users' = IF new # {} /\ linked
                            THEN company_users \cup (new \X {inits[i].user})
                            ELSE company_users
        /\ auth' = IF new # {}
                   THEN [auth EXCEPT !.companies = new,
                                     !.currentCompany = CHOOSE t \in new : TRUE,
                                     !.initializing = FALSE]
                   ELSE [auth EXCEPT !.initializing = FALSE]
  /\ inits' = Without(inits, i)
  /\ UNCHANGED <<ledgerVars, user_roles, relation, company_id, result, pc, form, invite,
                 auth_users, companies>>

\* setCurrentCompanyId(companyId).
setCurrentCompanyId(companyId) ==
  /\ auth' = [auth EXCEPT !.currentCompany =
                IF @ = companyId THEN @
                ELSE IF companyId \in auth.companies THEN companyId ELSE NoCompany]
  /\ auth' # auth
  /\ UNCHANGED <<ledgerVars, tenancyVars, pc, form, invite, auth_users, companies, inits>>

\* The provider mounted, over any accounts, companies and links.
InitAuth ==
  /\ EmptyLedger
  /\ auth_users = Users
  /\ user_roles \in SUBSET (Users \X {"admin"})
  /\ companies \in (SUBSET Tenants) \ {Tenants}
  /\ company_users \in SUBSET (companies \X Users)
  /\ relation = "companies"
  /\ company_id = [r \in RowIds |-> NoRow]
  /\ result = NoRequest
  /\ pc = NoHandler
  /\ form = NoForm
  /\ invite = NoInvite
  /\ auth = NoAuth
  /\ inits = <<>>

NextAuth ==
  \/ \E u \in Users \cup {NoUser} : SessionLoaded(u)
  \/ \E u \in Users \cup {NoUser} : AuthStateChange(u)
  \/ \E i \in 1..MaxInits : i <= Len(inits) /\ InitStarts(i)
  \/ \E i \in 1..MaxInits : i <= Len(inits) /\ ProfileArrives(i)
  \/ \E i \in 1..MaxInits, first \in Tenants : i <= Len(inits) /\ LinksArrive(i, first)
  \/ \E i \in 1..MaxInits : i <= Len(inits) /\ NoLinksArrive(i)
  \/ \E i \in 1..MaxInits : i <= Len(inits) /\ CompanyArrives(i)
  \/ \E id \in Tenants : setCurrentCompanyId(id)

SpecAuth == InitAuth /\ [][NextAuth]_vars

\* ================================================================ claims
\* The header the next trigger of session s validates, and what it reads.
NextChecked(s) == events[s][fired[s] + 1]
NextAggregate(s) == Aggregate(EntriesView(s), NextChecked(s))
Checking(s) == txState[s] = "Committing" /\ fired[s] < Len(events[s])
\* Session s takes a step of its COMMIT.
CommitStep(s) == <<txState[s], fired[s]>>' # <<txState[s], fired[s]>>
Balanced(a) == a.v_count >= 2 /\ a.v_sum = 0
\* How often the trigger has run for header h in the transaction of session s.
Invocations(s, h) == Cardinality({i \in 1..fired[s] : events[s][i] = h})

\* C1: in every committed state, every header that has at least one entry has
\* at least two entries and their amounts sum to zero.
CoreLedgerInvariant ==
  \A h \in Headers :
    LET a == Aggregate(transaction_entries, h)
    IN a.v_count = 0 \/ Balanced(a)

\* C2 (P1): a check that finds two or more lines summing to zero, however many
\* lines there are, raises nothing: the commit goes on.
P1_BalancedIsAllowed ==
  [][\A s \in Sessions :
       (Checking(s) /\ Balanced(NextAggregate(s)) /\ CommitStep(s))
         => (txState'[s] = "Committing" /\ fired'[s] = fired[s] + 1
             /\ violation'[s] = NoViolation)]_vars

\* C2 witness: the trigger has run four times for a header of four lines, two
\* debits and two credits, and has raised nothing.
P1_Witness ==
  /\ txState["s1"] = "Committing"
  /\ fired["s1"] = 4
  /\ \E h \in Headers :
       /\ Invocations("s1", h) = 4
       /\ added["s1"][<<h, 1>>] = 2 /\ added["s1"][<<h, -1>>] = 2
       /\ Aggregate(EntriesView("s1"), h) = [v_sum |-> 0, v_count |-> 4]

\* C3 (P2): a check that finds fewer than two lines aborts the commit with the
\* too-few-lines message, whatever the sum of the lines.
P2_TooFewLinesFirst ==
  [][\A s \in Sessions :
       (Checking(s) /\ NextAggregate(s).v_count < 2 /\ CommitStep(s))
         => (txState'[s] = "Aborted" /\ violation'[s] = TooFewLines)]_vars

\* C3 witness: the commit of a transaction that leaves a header with a single
\* line of non-zero amount is about to be rejected with the too-few-lines message.
P2_Witness ==
  /\ Checking("s1")
  /\ NextAggregate("s1").v_count = 1
  /\ NextAggregate("s1").v_sum # 0
  /\ ENABLED (FireTrigger("s1") /\ txState'["s1"] = "Aborted"
              /\ violation'["s1"] = TooFewLines)

\* C4 (P3): a check that finds two or more lines whose sum is not zero aborts the
\* commit with the unbalanced message, and the abort leaves the committed tables
\* as they were and the session with none of its writes; the committed tables
\* change in no step but the last step of a successful commit.
P3_UnbalancedRolledBack ==
  [][/\ \A s \in Sessions :
          (Checking(s) /\ NextAggregate(s).v_count >= 2
             /\ NextAggregate(s).v_sum # 0 /\ CommitStep(s))
            => /\ txState'[s] = "Aborted"
               /\ violation'[s] = Unbalanced
               /\ transaction_entries' = transaction_entries
               /\ transactions' = transactions
               /\ added'[s] = NoRows /\ removed'[s] = NoRows
               /\ headerWrites'[s] = NoHeaderWrites
     /\ (<<transaction_entries, transactions>>' # <<transaction_entries, transactions>>)
          => \E s \in Sessions :
               txState[s] = "Committing" /\ txState'[s] = "Committed"]_vars

\* C4 witness: a transaction that inserted a header and two lines of sum 2 for it
\* is about to be rejected with the unbalanced message.
P3_Witness ==
  /\ Checking("s1")
  /\ headerWrites["s1"][NextChecked("s1")] = "inserted"
  /\ NextAggregate("s1") = [v_sum |-> 2, v_count |-> 2]
  /\ ENABLED (FireTrigger("s1") /\ txState'["s1"] = "Aborted"
              /\ violation'["s1"] = Unbalanced)

\* The trigger events queued for header h in the transaction of session s, and the
\* uncommitted lines of h the transaction holds.
QueuedFor(s, h) == Cardinality({i \in 1..Len(events[s]) : events[s][i] = h})
AddedTo(s, h) == Sum([a \in AllAmounts |-> added[s][<<h, a>>]], AllAmounts)
\* Session s has deleted or rewritten every committed line of header h.
Replaced(s, h) == \A a \in AllAmounts : removed[s][<<h, a>>] = transaction_entries[<<h, a>>]
\* The transaction of session s has changed the line set of header h.
LinesChanged(s, h) ==
  \E a \in AllAmounts : removed[s][<<h, a>>] > 0 \/ added[s][<<h, a>>] > 0

\* C5 (P4): no statement of an open transaction is rejected by the check, whatever
\* intermediate state it leaves; the check of a committed balanced header whose
\* lines the transaction all replaced by a new balanced set raises nothing; and a
\* commit that succeeds makes exactly the transaction's final lines the committed
\* ones.
P4_DeferredIntermediate ==
  [][\A s \in Sessions :
       /\ (txState[s] = "Open" /\ txState'[s] # "Open")
            => (violation'[s] = NoViolation /\ fired'[s] = 0)
       /\ \A h \in Headers :
            (Checking(s) /\ NextChecked(s) = h /\ CommitStep(s)
               /\ Balanced(Aggregate(transaction_entries, h)) /\ Replaced(s, h)
               /\ Balanced(Aggregate(EntriesView(s), h)))
              => txState'[s] = "Committing"
       /\ (txState[s] = "Committing" /\ txState'[s] = "Committed")
            => transaction_entries' =
                 [k \in Kinds |-> transaction_entries[k] - removed[s][k] + added[s][k]]
    ]_vars

\* C5 witness: a transaction has replaced both committed lines of a balanced
\* header by two new lines, every one of its four row events has been validated
\* without an exception, and the commit is about to complete.
P4_Witness ==
  \E h \in Headers :
    /\ txState["s1"] = "Committing"
    /\ Len(events["s1"]) = 4 /\ fired["s1"] = 4
    /\ Aggregate(transaction_entries, h) = [v_sum |-> 0, v_count |-> 2]
    /\ Replaced("s1", h)
    /\ added["s1"][<<h, 1>>] = 1 /\ added["s1"][<<h, -1>>] = 1
    /\ ENABLED (Finalize("s1") /\ transaction_entries'[<<h, 1>>] = 1)

\* C6: a transaction that aborts, for whatever header, leaves both committed
\* tables as they were and keeps none of its writes, and an aborted session reads
\* nothing but the committed rows.
AbortAllOrNothing ==
  [][\A s \in Sessions :
       (txState[s] # "Aborted" /\ txState'[s] = "Aborted")
         => /\ transaction_entries' = transaction_entries
            /\ transactions' = transactions
            /\ added'[s] = NoRows /\ removed'[s] = NoRows
            /\ headerWrites'[s] = NoHeaderWrites
            /\ events'[s] = <<>>
            /\ EntriesView(s)' = transaction_entries
            /\ HeadersView(s)' = transactions]_vars

\* C6 witness: a transaction inserted two headers, a balanced pair of lines for
\* one and a single line for the other; the checks of the balanced header have
\* passed and the check of the other is about to abort the commit.
AbortAllOrNothing_Witness ==
  \E h1, h2 \in Headers :
    /\ h1 # h2
    /\ headerWrites["s1"][h1] = "inserted" /\ headerWrites["s1"][h2] = "inserted"
    /\ Checking("s1") /\ NextChecked("s1") = h2
    /\ Invocations("s1", h1) = 2
    /\ Aggregate(EntriesView("s1"), h1) = [v_sum |-> 0, v_count |-> 2]
    /\ Aggregate(EntriesView("s1"), h2).v_count = 1
    /\ ENABLED (FireTrigger("s1") /\ txState'["s1"] = "Aborted")

NoChangedHeaderUnchecked ==
  \A s \in Sessions :
    (txState[s] = "Committing" /\ fired[s] = Len(events[s]))
      => \A h \in Headers : LinesChanged(s, h) => Invocations(s, h) >= 1

\* The exception a COMMIT ends with when it validates the headers of the queue q
\* in order over the rows the transaction reads, or NoViolation when it succeeds.
RECURSIVE CommitOutcome(_, _)
CommitOutcome(rows, q) ==
  IF q = <<>> THEN NoViolation
  ELSE LET raised == validate_transaction_entries(rows, Head(q))
       IN IF raised # NoViolation THEN raised ELSE CommitOutcome(rows, Tail(q))

\* The transaction of session s has written nothing but INSERTs of lines: every
\* queued event left one uncommitted line.
OnlyInserts(s) ==
  /\ removed[s] = NoRows
  /\ \A h \in Headers : headerWrites[s][h] # "deleted"
  /\ Len(events[s]) = Sum(added[s], Kinds)

\* C9: the outcome of a COMMIT is the same for every order in which the
\* transaction could have issued its writes. Stated for transactions made of line
\* INSERTs, which reach the same final lines in every order, and whose row events
\* are queued in the order of the INSERTs.
OutcomeIndependentOfOrder ==
  \A s \in Sessions :
    (txState[s] = "Committing" /\ fired[s] = 0 /\ OnlyInserts(s))
      => \A p \in Permutations(1..Len(events[s])) :
           CommitOutcome(EntriesView(s), [i \in 1..Len(events[s]) |-> events[s][p[i]]])
             = CommitOutcome(EntriesView(s), events[s])

\* The aggregate of header h over the committed lines and the uncommitted writes
\* of session s, and no other.
OwnAggregate(s, h) ==
  [v_sum |-> Sum([a \in AllAmounts |->
                    a * (transaction_entries[<<h, a>>] - removed[s][<<h, a>>]
                         + added[s][<<h, a>>])], AllAmounts),
   v_count |-> Sum([a \in AllAmounts |->
                      transaction_entries[<<h, a>>] - removed[s][<<h, a>>]
                      + added[s][<<h, a>>]], AllAmounts)]

\* The aggregate of header h over every stored line version, those of the
\* transactions in progress included.
DirtyAggregate(h) ==
  [v_sum |-> Sum([a \in AllAmounts |->
                    a * (Unlocked(<<h, a>>)
                         + Sum([o \in Sessions |-> added[o][<<h, a>>]], Sessions))],
                 AllAmounts),
   v_count |-> Sum([a \in AllAmounts |->
                      Unlocked(<<h, a>>)
                      + Sum([o \in Sessions |-> added[o][<<h, a>>]], Sessions)],
                   AllAmounts)]

\* C10: every check of a commit decides on the committed lines and the
\* transaction's own uncommitted writes alone, and what a session reads changes
\* only by its own writes or by the commit of another session.
CheckIsolated ==
  [][\A s \in Sessions :
       /\ (Checking(s) /\ CommitStep(s))
            => LET own == OwnAggregate(s, NextChecked(s))
               IN IF Balanced(own)
                  THEN txState'[s] = "Committing" /\ fired'[s] = fired[s] + 1
                  ELSE /\ txState'[s] = "Aborted"
                       /\ violation'[s] = IF own.v_count < 2 THEN TooFewLines
                                          ELSE Unbalanced
       /\ (EntriesView(s)' # EntriesView(s))
            => \/ <<added[s], removed[s]>>' # <<added[s], removed[s]>>
               \/ \E o \in Others(s) :
                    txState[o] = "Committing" /\ txState'[o] = "Committed"]_vars

\* C10 witness: the check of session s1 has passed for a header that is balanced
\* in what s1 reads, while the lines session s2 has written and not committed
\* leave that header unbalanced.
CheckIsolated_Witness ==
  /\ txState["s1"] = "Committing" /\ fired["s1"] >= 1
  /\ txState["s2"] = "Open"
  /\ LET h == events["s1"][fired["s1"]]
     IN /\ AddedTo("s2", h) > 0
        /\ Balanced(OwnAggregate("s1", h))
        /\ ~Balanced(DirtyAggregate(h))

\* C11: when two concurrent transactions have both committed, every header that
\* has lines has at least two and they sum to zero.
NoWriteSkew ==
  (\A s \in Sessions : txState[s] = "Committed")
    => \A h \in Headers :
         LET a == Aggregate(transaction_entries, h)
         IN a.v_count = 0 \/ Balanced(a)

canAccess(u, t) == Member(u, t) \/ has_role(u, "admin")

\* C13: a SELECT of a user on any of the six tables returns exactly the rows of
\* the tenants the user is a member of, or every row when the user holds the
\* global admin role.
AccessIffMemberOrAdmin ==
  (result.command = "SELECT" /\ result.by \in Users)
    => result.rows = {r \in Existing : canAccess(result.by, company_id[r])}

\* The tables of ledger entries, transaction headers and accounts.
LedgerTables == {"transaction_entries", "transactions", "accounts"}

WithCheckOnWrittenValues ==
  [][(result'.by \in Users /\ result'.command \in {"INSERT", "UPDATE"})
       => /\ \A r \in result'.rows : canAccess(result'.by, company_id'[r])
          /\ \A r \in RowIds :
               company_id'[r] # company_id[r] => canAccess(result'.by, company_id'[r])
          /\ result'.error => company_id' = company_id]_vars

\* C15 witness: the UPDATE of a header of tenant A by a user who is a member of A
\* only, to carry another tenant, has been rejected with an error.
WithCheckOnWrittenValues_Witness ==
  /\ relation = "transactions"
  /\ result.command = "UPDATE" /\ result.error /\ result.by \in Users
  /\ ~has_role(result.by, "admin")
  /\ {c \in Tenants : Member(result.by, c)} = {"A"}
  /\ \E r \in RowIds : company_id[r] = "A"

\* Every line carries the company_id of the header it references.
LinesCarryHeaderCompany ==
  \A r \in Existing : company_id[r] = HeaderCompany(r)

\* C16: no INSERT and no UPDATE on transaction_entries leaves a line whose
\* company_id differs from that of its header, when the lines agreed with their
\* headers before.
EntryTenantMatchesHeader ==
  [][(relation = "transaction_entries" /\ LinesCarryHeaderCompany)
       => LinesCarryHeaderCompany']_vars

\* C17: the commit of a transaction that deleted a header with a committed
\* balanced set of lines, and with it every line of the header, is not rejected by
\* the checks of those lines.
HeaderDeleteCommits ==
  [][\A s \in Sessions : \A h \in Headers :
       (Checking(s) /\ NextChecked(s) = h /\ CommitStep(s)
          /\ headerWrites[s][h] = "deleted"
          /\ Balanced(Aggregate(transaction_entries, h))
          /\ Aggregate(EntriesView(s), h).v_count = 0)
         => txState'[s] = "Committing"]_vars

\* The state changes of an ambient transaction: it is opened, COMMIT is issued,
\* the commit completes or fails; the client may also roll an open transaction
\* back, which is no failure.
TransactionMoves ==
  {<<"Idle", "Open">>, <<"Committed", "Open">>, <<"Aborted", "Open">>,
   <<"Open", "Committing">>, <<"Committing", "Committed">>,
   <<"Committing", "Aborted">>, <<"Open", "Aborted">>}

\* C18: a transaction goes from Open to Committing and from there to Committed
\* or to Aborted and nowhere else; it gets to Committed only when the check has
\* run and passed for every header queued, and to Aborted only when the check of
\* a header fails; the committed tables change at the step to Committed only,
\* to the transaction's writes; an ended transaction holds nothing and the
\* session's next step opens a new one.
CommitStateMachine ==
  [][/\ (<<transaction_entries, transactions>>' # <<transaction_entries, transactions>>)
          => \E s \in Sessions : txState[s] = "Committing" /\ txState'[s] = "Committed"
     /\ \A s \in Sessions :
       /\ txState'[s] # txState[s] => <<txState[s], txState'[s]>> \in TransactionMoves
       /\ (txState[s] = "Open" /\ txState'[s] = "Aborted") => violation'[s] = NoViolation
       /\ (txState[s] = "Committing" /\ txState'[s] = "Committed")
            => /\ fired[s] = Len(events[s])
               /\ \A h \in Headers :
                    QueuedFor(s, h) > 0
                      => validate_transaction_entries(EntriesView(s), h) = NoViolation
               /\ transaction_entries' = EntriesView(s)
               /\ transactions' = HeadersView(s)
       /\ (txState[s] = "Committing" /\ txState'[s] = "Aborted")
            => /\ validate_transaction_entries(EntriesView(s), NextChecked(s)) # NoViolation
               /\ violation'[s] # NoViolation
       /\ txState'[s] \in {"Committed", "Aborted"}
            => (added'[s] = NoRows /\ removed'[s] = NoRows /\ events'[s] = <<>>)
    ]_vars

\* C18 witness: a transaction that inserted a header and two lines for it has
\* been committed and the rows are in the committed tables.
CommitStateMachine_Witness ==
  /\ txState["s1"] = "Committed"
  /\ violation["s1"] = NoViolation
  /\ \E h \in Headers :
       /\ transactions[h] = "present"
       /\ Aggregate(transaction_entries, h) = [v_sum |-> 0, v_count |-> 2]
  /\ Sum(transaction_entries, Kinds) = 2

\* C19 (P6): a run of the check that raises nothing changes no row of either
\* table, no uncommitted row version and queues nothing, and the run that follows
\* it for the same header raises nothing as well.
CheckIsIdempotent ==
  [][\A s \in Sessions :
       /\ (Checking(s) /\ fired'[s] = fired[s] + 1)
            => /\ <<transaction_entries, transactions>>' = <<transaction_entries, transactions>>
               /\ <<added, removed, headerWrites, events>>'
                    = <<added, removed, headerWrites, events>>
       /\ (Checking(s) /\ fired[s] >= 1 /\ events[s][fired[s]] = NextChecked(s)
             /\ CommitStep(s))
            => (txState'[s] = "Committing" /\ violation'[s] = NoViolation)]_vars

\* C19 witness: the check has run twice in a row for the one header of a
\* transaction, a header with two lines, and has passed both times.
CheckIsIdempotent_Witness ==
  /\ txState["s1"] = "Committing"
  /\ Len(events["s1"]) = 2 /\ fired["s1"] = 2
  /\ events["s1"][1] = events["s1"][2]
  /\ Aggregate(EntriesView("s1"), events["s1"][1]).v_count = 2


\* C20: in the edit workflow of the page the delete of the old lines and the insert
\* of the new ones are statements of one ambient transaction: whenever a COMMIT
\* validates the lines the edit has deleted from its header, the transaction that
\* commits holds the new lines of that header as well.
EditReplacesInOneTransaction ==
  (/\ pc.at = "edit:delete"
   /\ txState[Client] = "Committing"
   /\ Sum(removed[Client], Kinds) > 0)
    => Aggregate(added[Client], pc.transactionId).v_count >= 2

\* C21: a save that fails at the request that deletes or inserts the lines leaves
\* nothing behind: the header row of the save is as the form found it (absent
\* for a create, with the fields it was loaded with for an edit).
SaveFailsWhole ==
  (/\ txState[Client] = "Aborted"
   /\ pc.at \in {"edit:delete", "edit:lines", "create:lines"})
    => transactions[pc.transactionId] = pc.loaded

\* C22: no committed state holds a header the page created that has no line.
NoCommittedHeaderWithoutLines ==
  \A h \in Headers :
    transactions[h] # "absent" => Aggregate(transaction_entries, h).v_count > 0

\* The lines of header h that session s reads.
CountFor(s, h) == Aggregate(EntriesView(s), h).v_count

EmptiedHeaderRejected ==
  [][\A s \in Sessions : \A h \in Headers :
       (txState[s] = "Committing" /\ txState'[s] = "Committed" /\ LinesChanged(s, h))
         => CountFor(s, h) > 0]_vars

\* C26: every form onSubmit sends has two lines or more, positive amounts and a
\* signed sum of exactly zero, and the check raises nothing for the lines it
\* inserts.
ClientAtLeastAsStrict ==
  /\ form.submitted \in {"sent", "answered"}
       => /\ Len(form.lines) >= 2
          /\ \A i \in 1..Len(form.lines) : form.lines[i].amount > 0
          /\ SumSeq(signedLines(form.lines)) = 0
  /\ form.raised = NoViolation

\* What a request to the invite-user function asks for.
IsPost(req) == req.method = "POST"
Authenticated(req) ==
  req.authorization.scheme = "Bearer" /\ req.authorization.user \in Users
ValidPayload(req) ==
  /\ req.body.json
  /\ req.body.email.present
  /\ req.body.email.chars \in 1..MaxEmailLength
  /\ req.body.companyId /\ req.body.role
CallerIsAdmin(req) == <<req.authorization.user, "admin">> \in user_roles
Served == invite.status # 0

MembershipOnlyByAdmin ==
  [][(company_users' \ company_users # {}) => has_role(result'.by, "admin")]_vars

\* C23: first access of a user who is no global admin: when the provider has
\* finished initializing for the signed-in user, the user is linked to a company
\* and currentCompany is set to a company of theirs, so ProtectedRoute renders
\* the protected page.
BootstrapGivesCompany ==
  \A u \in Users :
    (/\ auth.user = u /\ ~has_role(u, "admin")
     /\ ~auth.loading /\ ~auth.initializing /\ inits = <<>>)
      => /\ auth.currentCompany # NoCompany
         /\ Member(u, auth.currentCompany)

\* An init whose links were loaded has finished in this step.
InitLoaded ==
  \E i \in 1..Len(inits) :
    inits[i].at = "links" /\ inits[i].data # {} /\ inits' = Without(inits, i)
\* Nothing but currentCompany has changed in this step.
OnlyCurrentCompanyChanged ==
  /\ inits' = inits
  /\ auth'.currentCompany # auth.currentCompany
  /\ [auth' EXCEPT !.currentCompany = NoCompany] = [auth EXCEPT !.currentCompany = NoCompany]

\* C29: currentCompany is null or one of companies; an init that loaded links
\* keeps the previous currentCompany when it is among the loaded companies and
\* else takes one of them; setCurrentCompanyId(id) leaves currentCompany as it is
\* when id is current, sets it to id when companies has it and to null when not.
CurrentCompanyAmongCompanies ==
  /\ [](auth.currentCompany = NoCompany \/ auth.currentCompany \in auth.companies)
  /\ [][/\ InitLoaded => (auth'.companies # {} /\ auth'.currentCompany \in auth'.companies)
        /\ (InitLoaded /\ auth.currentCompany \in auth'.companies)
             => (auth'.currentCompany = auth.currentCompany)
        /\ OnlyCurrentCompanyChanged
             => (\E id \in Tenants \ {auth.currentCompany} :
                   auth'.currentCompany = IF id \in auth.companies THEN id ELSE NoCompany)
       ]_vars

\* C29 witness: an init has loaded two companies of its user while the current
\* company was one of them, and has kept it.
CurrentCompanyAmongCompanies_Witness ==
  /\ Cardinality(auth.companies) = 2
  /\ auth.currentCompany \in auth.companies
  /\ ENABLED (\E i \in 1..MaxInits : \E first \in Tenants :
                /\ i <= Len(inits) /\ LinksArrive(i, first)
                /\ first # auth.currentCompany)

\* C30: once the user is null and every init callback has run, profile and
\* currentCompany are null and companies is empty: an init of the user that was
\* signed in repopulates none of them.
SignOutClearsTenantState ==
  (auth.user = NoUser /\ inits = <<>>)
    => /\ auth.profile = NoUser
       /\ auth.currentCompany = NoCompany
       /\ auth.companies = {}

====
